---- MODULE Spec2Model ----
(***************************************************************************)
(* The IPAM-lite planner of visual-subnet-calc: the CIDR range parser, the *)
(* partition tree builder, the status cascade, the effective-status        *)
(* aggregator and the statistics walk of src/src/utils/subnetTree.ts,      *)
(* with the address arithmetic of src/src/utils/subnetCalculations.ts.     *)
(*                                                                         *)
(* Numbers.  A JavaScript number that holds an integer is exact up to      *)
(* 2^53; the values of this program reach 2^33.  TLC's integers stop at    *)
(* 2^31 - 1, so a number n is written as the pair <<hi, lo>> with          *)
(* n = hi * 2^16 + lo and 0 <= lo < 2^16.  The 32-bit operators of         *)
(* JavaScript (<<, >>>, &) act on the value modulo 2^32: the pair with     *)
(* hi < 2^16.                                                              *)
(*                                                                         *)
(* Strings.  A dotted address "a.b.c.d" is the sequence of its octet       *)
(* numerals <<a, b, c, d>> (what split('.') and parseInt read, and what    *)
(* join('.') writes); a CIDR string "A/P" is [addr |-> A, prefix |-> P]    *)
(* (what split('/') and Number read).  A node id is the string cidrKey     *)
(* builds.                                                                 *)
(***************************************************************************)
EXTENDS Integers, Sequences, FiniteSets, TLC

VARIABLES
    pc,        \* which call of the library the environment makes next
    input,     \* the CIDR string handed to parseCidrRange
    parsed,    \* the ParsedRange parseCidrRange returned for input
    reparsed,  \* the ParsedRange parseCidrRange returned for parsed.cidr
    plan,      \* the TreePlanConfig handed to buildSubnetTree
    heap,      \* the node maps (Record<string, SubnetNode> objects) alive
    tree,      \* the SubnetTree value the caller holds: rootId and a map reference
    retained,  \* the earlier tree values the caller still holds, as they were
    last,      \* the last call made on the tree and how it ended
    updates,   \* the number of updateNodeStatus calls made so far
    subnets,   \* the SubnetInfo values calculateSubnet returned, in order
    joined     \* what joinSubnets did with the two and the SubnetInfo it returned

vars == <<pc, input, parsed, reparsed, plan, heap, tree, retained, last, updates,
          subnets, joined>>

----------------------------------------------------------------------------
(* Evaluation.  TLC evaluates a LET definition and an operator argument each *)
(* time it is used.  Bind(value, Body) evaluates value once and hands the     *)
(* result to Body: it is the const declaration of the source.                 *)

Bind(value, Body(_)) == CHOOSE result \in {Body(v) : v \in {value}} : TRUE

----------------------------------------------------------------------------
(* Numbers as pairs <<hi, lo>> of base 2^16 *)

Limb == 2^16

Num(hi, lo) == <<hi + (lo \div Limb), lo % Limb>>

NZero == <<0, 0>>

NOne == <<0, 1>>

NAdd(a, b) == Num(a[1] + b[1], a[2] + b[2])

NSub(a, b) == Num(a[1] - b[1], a[2] - b[2])

NLe(a, b) == a[1] < b[1] \/ (a[1] = b[1] /\ a[2] <= b[2])

NLt(a, b) == NLe(a, b) /\ a /= b

\* n / 2 for an even n
NHalf(a) == <<a[1] \div 2, (a[2] + (a[1] % 2) * Limb) \div 2>>

\* 2 ** e for an integer e >= 0
NPow2(e) == IF e < 16 THEN <<0, 2^e>> ELSE <<2^(e - 16), 0>>

\* n modulo 2^e, 0 <= e <= 32, for n >= 0
NModPow2(a, e) == IF e >= 16 THEN <<a[1] % (2^(e - 16)), a[2]>> ELSE <<0, a[2] % (2^e)>>

\* ToUint32 / ToInt32 of ECMAScript, as the value modulo 2^32
ToUint32(a) == <<a[1] % Limb, a[2]>>

\* bit i of x
Bit(x, i) == (x \div (2^i)) % 2

\* x & y on 16-bit operands, bit by bit from bit i up
RECURSIVE And16(_, _, _)
And16(x, y, i) ==
    IF i = 16 THEN 0 ELSE Bit(x, i) * Bit(y, i) * (2^i) + And16(x, y, i + 1)

\* a & b on 32-bit operands
BitAnd(a, b) ==
    Bind(ToUint32(a), LAMBDA x :
    Bind(ToUint32(b), LAMBDA y :
        <<And16(x[1], y[1], 0), And16(x[2], y[2], 0)>>))

\* x | y on 16-bit operands, bit by bit from bit i up
RECURSIVE Or16(_, _, _)
Or16(x, y, i) ==
    IF i = 16 THEN 0
    ELSE (Bit(x, i) + Bit(y, i) - Bit(x, i) * Bit(y, i)) * (2^i) + Or16(x, y, i + 1)

\* a | b on 32-bit operands
BitOr(a, b) ==
    Bind(ToUint32(a), LAMBDA x :
    Bind(ToUint32(b), LAMBDA y :
        <<Or16(x[1], y[1], 0), Or16(x[2], y[2], 0)>>))

\* ~a >>> 0 on a 32-bit operand
BitNot(a) ==
    Bind(ToUint32(a), LAMBDA x : <<Limb - 1 - x[1], Limb - 1 - x[2]>>)

\* a << count: the count is taken modulo 32 and the result modulo 2^32
ShiftLeft(a, count) ==
    Bind(count % 32, LAMBDA s :
    Bind(ToUint32(a), LAMBDA x :
        IF s >= 16
        THEN <<((x[2] % (2^(32 - s))) * (2^(s - 16))) % Limb, 0>>
        ELSE <<((x[1] % (2^(16 - s))) * (2^s) + (x[2] * (2^s)) \div Limb) % Limb,
               (x[2] * (2^s)) % Limb>>))

AllOnes == <<Limb - 1, Limb - 1>>

----------------------------------------------------------------------------
(* src/src/utils/subnetCalculations.ts *)

\* ip.split('.').reduce((acc, octet) => (acc << 8) + parseInt(octet, 10), 0) >>> 0
RECURSIVE ipToIntFrom(_, _, _)
ipToIntFrom(octets, i, acc) ==
    IF i > Len(octets) THEN ToUint32(acc)
    ELSE Bind(NAdd(ShiftLeft(acc, 8), Num(0, octets[i])), LAMBDA next :
             ipToIntFrom(octets, i + 1, next))

\* ipToInt without the final >>> 0: the signed 32-bit value the last << left
ipToIntSigned(ip) ==
    Bind(ipToIntFrom(ip, 1, NZero), LAMBDA u :
        IF u[1] >= Limb \div 2 THEN NSub(u, NPow2(32)) ELSE u)

ipToInt(ip) == ipToIntFrom(ip, 1, NZero)

\* intToIP with the octets in the opposite order (least significant first)
intToIPReversed(int) ==
    LET u == ToUint32(int)
    IN  <<u[2] % 256, u[2] \div 256, u[1] % 256, u[1] \div 256>>

\* [(int >>> 24) & 255, (int >>> 16) & 255, (int >>> 8) & 255, int & 255].join('.')
intToIP(int) ==
    LET u == ToUint32(int)
    IN  <<u[1] \div 256, u[1] % 256, u[2] \div 256, u[2] % 256>>

\* mask = (0xFFFFFFFF << (32 - cidr)) >>> 0; networkInt = (ipInt & mask) >>> 0
getNetworkAddress(ip, cidr) ==
    Bind(ipToInt(ip), LAMBDA ipInt :
    Bind(ShiftLeft(AllOnes, 32 - cidr), LAMBDA mask :
    Bind(BitAnd(ipInt, mask), LAMBDA networkInt :
        intToIP(networkInt))))

\* parseInt(octet, 10).toString(2).padStart(8, '0') of each octet
ipToBinary(ip) == [k \in 1..Len(ip) |-> [i \in 1..8 |-> Bit(ip[k], 8 - i)]]

cidrToMask(cidr) ==
    IF cidr = 0 THEN <<0, 0, 0, 0>>
    ELSE Bind(ShiftLeft(AllOnes, 32 - cidr), LAMBDA mask : intToIP(mask))

\* ~((0xFFFFFFFF << (32 - cidr)) >>> 0) >>> 0
cidrToWildcard(cidr) ==
    Bind(BitNot(ShiftLeft(AllOnes, 32 - cidr)), LAMBDA wildcard : intToIP(wildcard))

\* (networkInt | ((1 << hostBits) - 1)) >>> 0
getBroadcastAddress(ip, cidr) ==
    Bind(ipToInt(getNetworkAddress(ip, cidr)), LAMBDA networkInt :
    Bind(32 - cidr, LAMBDA hostBits :
    Bind(BitOr(networkInt, NSub(ShiftLeft(NOne, hostBits), NOne)), LAMBDA broadcastInt :
        intToIP(broadcastInt))))

getFirstUsable(networkAddress) ==
    Bind(ipToInt(networkAddress), LAMBDA networkInt : intToIP(NAdd(networkInt, NOne)))

getLastUsable(broadcastAddress) ==
    Bind(ipToInt(broadcastAddress), LAMBDA broadcastInt : intToIP(NSub(broadcastInt, NOne)))

\* Math.pow(2, 32 - cidr)
getTotalHosts(cidr) == NPow2(32 - cidr)

getUsableHosts(cidr) ==
    Bind(getTotalHosts(cidr), LAMBDA total :
        IF cidr = 32 THEN NOne ELSE IF cidr = 31 THEN Num(0, 2) ELSE NSub(total, Num(0, 2)))

calculateSubnet(in) ==
    Bind(getNetworkAddress(in.addr, in.prefix), LAMBDA networkAddress :
    Bind(getBroadcastAddress(in.addr, in.prefix), LAMBDA broadcastAddress :
    Bind(cidrToMask(in.prefix), LAMBDA subnetMask :
        [networkAddress |-> networkAddress,
         broadcastAddress |-> broadcastAddress,
         subnetMask |-> subnetMask,
         wildcardMask |-> cidrToWildcard(in.prefix),
         firstUsable |-> getFirstUsable(networkAddress),
         lastUsable |-> getLastUsable(broadcastAddress),
         totalHosts |-> getTotalHosts(in.prefix),
         usableHosts |-> getUsableHosts(in.prefix),
         cidr |-> in.prefix,
         binaryNetwork |-> ipToBinary(networkAddress),
         binaryMask |-> ipToBinary(subnetMask)])))

\* Math.abs(network1 - network2) === subnetSize
canJoinSubnets(subnet1, subnet2) ==
    IF subnet1.cidr /= subnet2.cidr \/ subnet1.cidr <= 0 THEN FALSE
    ELSE \E network1 \in {ipToInt(subnet1.networkAddress)} :
         \E network2 \in {ipToInt(subnet2.networkAddress)} :
         \E subnetSize \in {getTotalHosts(subnet1.cidr)} :
             IF NLe(network2, network1)
             THEN NSub(network1, network2) = subnetSize
             ELSE NSub(network2, network1) = subnetSize

\* outcome "Error": the call threw 'Subnets cannot be joined'
joinSubnets(subnet1, subnet2) ==
    IF ~canJoinSubnets(subnet1, subnet2) THEN [outcome |-> "Error", subnet |-> <<>>]
    ELSE Bind(ipToInt(subnet1.networkAddress), LAMBDA network1 :
         Bind(ipToInt(subnet2.networkAddress), LAMBDA network2 :
         Bind(intToIP(IF NLe(network1, network2) THEN network1 ELSE network2),
              LAMBDA newNetworkAddress :
             [outcome |-> "returned",
              subnet |-> calculateSubnet([addr |-> newNetworkAddress,
                                          prefix |-> subnet1.cidr - 1])])))

----------------------------------------------------------------------------
(* src/src/utils/subnetTree.ts: the range parser *)

Dotted(network) ==
    ToString(network[1]) \o "." \o ToString(network[2]) \o "."
        \o ToString(network[3]) \o "." \o ToString(network[4])

\* `${network}/${prefix}`
cidrKey(network, prefix) == Dotted(network) \o "/" \o ToString(prefix)

parseCidrRange(cidr) ==
    LET rawNetwork == cidr.addr
        prefix == cidr.prefix
    IN  Bind(getNetworkAddress(rawNetwork, prefix), LAMBDA network :
        Bind(ipToInt(network), LAMBDA start :
        Bind(NPow2(32 - prefix), LAMBDA size :
        Bind(NSub(NAdd(start, size), NOne), LAMBDA end :
            [cidr |-> cidrKey(network, prefix), network |-> network, prefix |-> prefix,
             start |-> start, end |-> end, size |-> size]))))

\* cidr.split('/') of a string cidrKey built: the network and the prefix numeral
SplitKey(range) == [addr |-> range.network, prefix |-> range.prefix]

----------------------------------------------------------------------------
(* src/src/types/subnetTree.ts *)

ExplicitStatus == {"IN_USE", "FREE", "RESERVED", "UNAVAILABLE"}

EffectiveStatus == ExplicitStatus \cup {"PARTIAL"}

\* the value of an optional field that is absent (explicitStatus, parentId)
Undefined == "undefined"

----------------------------------------------------------------------------
(* src/src/utils/subnetTree.ts: the tree *)

\* Names of functions every object literal inherits from Object.prototype.
\* nodes[key] on a map created as {} is truthy for an own key and for each of
\* these names; the inherited value has no children field.
ObjectPrototypeKeys ==
    {"constructor", "toString", "valueOf", "hasOwnProperty"}

\* the truthiness of nodes[key]
HasEntry(nodes, key) == key \in DOMAIN nodes \/ key \in ObjectPrototypeKeys

NoNodes == [id \in {} |-> {}]

\* containsRange testing for a common address instead of containment
containsRangeOverlap(container, target) ==
    NLe(container.start, target.end) /\ NLe(target.start, container.end)

containsRange(container, target) ==
    NLe(container.start, target.start) /\ NLe(target.end, container.end)

cloneNodesAliased(h, ref) == [heap |-> h, ref |-> ref]

\* A new map object holding a copy of every node of the map at ref.
cloneNodes(h, ref) == [heap |-> Append(h, h[ref]), ref |-> Len(h) + 1]

RECURSIVE buildNodeTree(_, _, _, _)
\* buildNodeTree with <= in place of < in the test that splits a range
buildNodeTreeInclusive(range, minPrefix, nodes, parentId) ==
    LET id == cidrKey(range.network, range.prefix)
        node == [id |-> id, network |-> range.network, prefix |-> range.prefix,
                 start |-> range.start, end |-> range.end, parentId |-> parentId,
                 children |-> <<>>, explicitStatus |-> Undefined,
                 effectiveStatus |-> "UNAVAILABLE", defaultStatus |-> "UNAVAILABLE",
                 totalIPs |-> range.size]
        placed == (id :> node) @@ nodes
        linked == IF parentId /= Undefined
                  THEN [placed EXCEPT ![parentId].children = Append(@, id)]
                  ELSE placed
        childPrefix == range.prefix + 1
        firstStart == range.start
    IN  IF range.prefix <= minPrefix
        THEN Bind(NHalf(range.size), LAMBDA childSize :
             Bind(NAdd(range.start, childSize), LAMBDA secondStart :
             Bind([cidr |-> "", network |-> intToIP(firstStart), prefix |-> childPrefix,
                   start |-> firstStart, end |-> NSub(NAdd(firstStart, childSize), NOne),
                   size |-> childSize], LAMBDA firstRange :
             Bind([cidr |-> "", network |-> intToIP(secondStart), prefix |-> childPrefix,
                   start |-> secondStart, end |-> NSub(NAdd(secondStart, childSize), NOne),
                   size |-> childSize], LAMBDA secondRange :
             Bind(buildNodeTree(firstRange, minPrefix, linked, id), LAMBDA withFirst :
                 buildNodeTree(secondRange, minPrefix, withFirst, id))))))
        ELSE linked

\* buildNodeTree with totalIPs taken as end - start
buildNodeTreeEndMinusStart(range, minPrefix, nodes, parentId) ==
    LET id == cidrKey(range.network, range.prefix)
        node == [id |-> id, network |-> range.network, prefix |-> range.prefix,
                 start |-> range.start, end |-> range.end, parentId |-> parentId,
                 children |-> <<>>, explicitStatus |-> Undefined,
                 effectiveStatus |-> "UNAVAILABLE", defaultStatus |-> "UNAVAILABLE",
                 totalIPs |-> NSub(range.end, range.start)]
        placed == (id :> node) @@ nodes
        linked == IF parentId /= Undefined
                  THEN [placed EXCEPT ![parentId].children = Append(@, id)]
                  ELSE placed
        childPrefix == range.prefix + 1
        firstStart == range.start
    IN  IF range.prefix < minPrefix
        THEN Bind(NHalf(range.size), LAMBDA childSize :
             Bind(NAdd(range.start, childSize), LAMBDA secondStart :
             Bind([cidr |-> "", network |-> intToIP(firstStart), prefix |-> childPrefix,
                   start |-> firstStart, end |-> NSub(NAdd(firstStart, childSize), NOne),
                   size |-> childSize], LAMBDA firstRange :
             Bind([cidr |-> "", network |-> intToIP(secondStart), prefix |-> childPrefix,
                   start |-> secondStart, end |-> NSub(NAdd(secondStart, childSize), NOne),
                   size |-> childSize], LAMBDA secondRange :
             Bind(buildNodeTree(firstRange, minPrefix, linked, id), LAMBDA withFirst :
                 buildNodeTree(secondRange, minPrefix, withFirst, id))))))
        ELSE linked

\* buildNodeTree that builds the upper half only where it is a leaf
buildNodeTreeLowerHalf(range, minPrefix, nodes, parentId) ==
    LET id == cidrKey(range.network, range.prefix)
        node == [id |-> id, network |-> range.network, prefix |-> range.prefix,
                 start |-> range.start, end |-> range.end, parentId |-> parentId,
                 children |-> <<>>, explicitStatus |-> Undefined,
                 effectiveStatus |-> "UNAVAILABLE", defaultStatus |-> "UNAVAILABLE",
                 totalIPs |-> range.size]
        placed == (id :> node) @@ nodes
        linked == IF parentId /= Undefined
                  THEN [placed EXCEPT ![parentId].children = Append(@, id)]
                  ELSE placed
        childPrefix == range.prefix + 1
        firstStart == range.start
    IN  IF range.prefix < minPrefix
        THEN Bind(NHalf(range.size), LAMBDA childSize :
             Bind(NAdd(range.start, childSize), LAMBDA secondStart :
             Bind([cidr |-> "", network |-> intToIP(firstStart), prefix |-> childPrefix,
                   start |-> firstStart, end |-> NSub(NAdd(firstStart, childSize), NOne),
                   size |-> childSize], LAMBDA firstRange :
             Bind([cidr |-> "", network |-> intToIP(secondStart), prefix |-> childPrefix,
                   start |-> secondStart, end |-> NSub(NAdd(secondStart, childSize), NOne),
                   size |-> childSize], LAMBDA secondRange :
             Bind(buildNodeTree(firstRange, minPrefix, linked, id), LAMBDA withFirst :
                 IF secondRange.prefix < minPrefix THEN withFirst
                 ELSE buildNodeTree(secondRange, minPrefix, withFirst, id))))))
        ELSE linked

buildNodeTree(range, minPrefix, nodes, parentId) ==
    LET id == cidrKey(range.network, range.prefix)
        node == [id |-> id, network |-> range.network, prefix |-> range.prefix,
                 start |-> range.start, end |-> range.end, parentId |-> parentId,
                 children |-> <<>>, explicitStatus |-> Undefined,
                 effectiveStatus |-> "UNAVAILABLE", defaultStatus |-> "UNAVAILABLE",
                 totalIPs |-> range.size]
        placed == (id :> node) @@ nodes
        linked == IF parentId /= Undefined
                  THEN [placed EXCEPT ![parentId].children = Append(@, id)]
                  ELSE placed
        childPrefix == range.prefix + 1
        firstStart == range.start
    IN  IF range.prefix < minPrefix
        THEN Bind(NHalf(range.size), LAMBDA childSize :
             Bind(NAdd(range.start, childSize), LAMBDA secondStart :
             Bind([cidr |-> "", network |-> intToIP(firstStart), prefix |-> childPrefix,
                   start |-> firstStart, end |-> NSub(NAdd(firstStart, childSize), NOne),
                   size |-> childSize], LAMBDA firstRange :
             Bind([cidr |-> "", network |-> intToIP(secondStart), prefix |-> childPrefix,
                   start |-> secondStart, end |-> NSub(NAdd(secondStart, childSize), NOne),
                   size |-> childSize], LAMBDA secondRange :
             Bind(buildNodeTree(firstRange, minPrefix, linked, id), LAMBDA withFirst :
                 buildNodeTree(secondRange, minPrefix, withFirst, id))))))
        ELSE linked

\* setDefaultStatuses with every in place of some: a node is FREE by default
\* only if each assigned range contains it
setDefaultStatusesEvery(nodes, assignedRanges) ==
    [id \in DOMAIN nodes |->
        LET inAssigned == \A i \in 1..Len(assignedRanges) :
                              containsRange(assignedRanges[i], nodes[id])
        IN  [nodes[id] EXCEPT !.defaultStatus = IF inAssigned THEN "FREE" ELSE "UNAVAILABLE"]]

setDefaultStatuses(nodes, assignedRanges) ==
    [id \in DOMAIN nodes |->
        LET inAssigned == \E i \in 1..Len(assignedRanges) :
                              containsRange(assignedRanges[i], nodes[id])
        IN  [nodes[id] EXCEPT !.defaultStatus = IF inAssigned THEN "FREE" ELSE "UNAVAILABLE"]]

RECURSIVE applyExplicitStatusToSubtree(_, _, _)
RECURSIVE applyExplicitStatusToChildren(_, _, _, _)
\* applyExplicitStatusToSubtree that marks the node alone and clears the
\* explicitStatus of the nodes below it
applyExplicitStatusClearingBelow(nodes, nodeId, status) ==
    IF ~HasEntry(nodes, nodeId) THEN nodes
    ELSE LET node == nodes[nodeId]
         IN  Bind([nodes EXCEPT ![nodeId].explicitStatus = status], LAMBDA marked :
                 applyExplicitStatusToChildren(marked, node.children, 1, Undefined))

\* applyExplicitStatusToSubtree writing the status to defaultStatus as well
applyExplicitStatusOverDefault(nodes, nodeId, status) ==
    IF ~HasEntry(nodes, nodeId) THEN nodes
    ELSE LET node == nodes[nodeId]
         IN  Bind([nodes EXCEPT ![nodeId].explicitStatus = status,
                                ![nodeId].defaultStatus = status], LAMBDA marked :
                 applyExplicitStatusToChildren(marked, node.children, 1, status))

applyExplicitStatusNoRecursion(nodes, nodeId, status) ==
    IF ~HasEntry(nodes, nodeId) THEN nodes
    ELSE [nodes EXCEPT ![nodeId].explicitStatus = status]

applyExplicitStatusToSubtree(nodes, nodeId, status) ==
    IF ~HasEntry(nodes, nodeId) THEN nodes
    ELSE LET node == nodes[nodeId]
         IN  Bind([nodes EXCEPT ![nodeId].explicitStatus = status], LAMBDA marked :
                 applyExplicitStatusToChildren(marked, node.children, 1, status))

\* node.children.forEach((childId) => applyExplicitStatusToSubtree(nodes, childId, status))
applyExplicitStatusToChildren(nodes, children, i, status) ==
    IF i > Len(children) THEN nodes
    ELSE Bind(applyExplicitStatusToSubtree(nodes, children[i], status), LAMBDA marked :
             applyExplicitStatusToChildren(marked, children, i + 1, status))

\* cidrs.map(parseCidrRange).forEach((range) => ...), from entry i on
RECURSIVE applyExplicitFromRangesFrom(_, _, _, _)
applyExplicitFromRangesFrom(nodes, cidrs, i, status) ==
    IF i > Len(cidrs) THEN nodes
    ELSE Bind(parseCidrRange(cidrs[i]), LAMBDA range :
         Bind(cidrKey(range.network, range.prefix), LAMBDA nodeId :
         Bind(IF HasEntry(nodes, nodeId)
              THEN applyExplicitStatusToSubtree(nodes, nodeId, status)
              ELSE nodes, LAMBDA applied :
             applyExplicitFromRangesFrom(applied, cidrs, i + 1, status))))

\* applyExplicitFromRanges going by containment instead of by node id: every
\* node inside one of the ranges gets the status
applyExplicitFromRangesContained(nodes, cidrs, status) ==
    IF Len(cidrs) = 0 THEN nodes
    ELSE Bind([i \in 1..Len(cidrs) |-> parseCidrRange(cidrs[i])], LAMBDA ranges :
             [id \in DOMAIN nodes |->
                 IF \E i \in 1..Len(ranges) : containsRange(ranges[i], nodes[id])
                 THEN [nodes[id] EXCEPT !.explicitStatus = status]
                 ELSE nodes[id]])

applyExplicitFromRanges(nodes, cidrs, status) ==
    IF Len(cidrs) = 0 THEN nodes ELSE applyExplicitFromRangesFrom(nodes, cidrs, 1, status)

RECURSIVE walk(_, _, _)
RECURSIVE walkChildren(_, _, _, _, _)
\* walk with the two branches of its conditional exchanged:
\* allSame ? 'PARTIAL' : childStatuses[0]
walkInverted(nodes, updated, nodeId) ==
    IF nodeId \notin DOMAIN nodes THEN [status |-> "UNAVAILABLE", updated |-> updated]
    ELSE LET node == nodes[nodeId]
         IN  IF Len(node.children) = 0
             THEN LET status == IF node.explicitStatus /= Undefined
                                THEN node.explicitStatus ELSE node.defaultStatus
                  IN  [status |-> status,
                       updated |-> (nodeId :> [node EXCEPT !.effectiveStatus = status]) @@ updated]
             ELSE Bind(walkChildren(nodes, updated, node.children, 1, <<>>), LAMBDA below :
                      LET childStatuses == below.statuses
                          allSame == \A i \in 1..Len(childStatuses) :
                                         childStatuses[i] = childStatuses[1]
                          status == IF allSame THEN "PARTIAL" ELSE childStatuses[1]
                      IN  [status |-> status,
                           updated |-> (nodeId :> [node EXCEPT !.effectiveStatus = status])
                                           @@ below.updated])

\* walk with the operands of ?? exchanged: node.defaultStatus ?? node.explicitStatus
walkDefaultFirst(nodes, updated, nodeId) ==
    IF nodeId \notin DOMAIN nodes THEN [status |-> "UNAVAILABLE", updated |-> updated]
    ELSE LET node == nodes[nodeId]
         IN  IF Len(node.children) = 0
             THEN LET status == node.defaultStatus
                  IN  [status |-> status,
                       updated |-> (nodeId :> [node EXCEPT !.effectiveStatus = status]) @@ updated]
             ELSE Bind(walkChildren(nodes, updated, node.children, 1, <<>>), LAMBDA below :
                      LET childStatuses == below.statuses
                          allSame == \A i \in 1..Len(childStatuses) :
                                         childStatuses[i] = childStatuses[1]
                          status == IF allSame THEN childStatuses[1] ELSE "PARTIAL"
                      IN  [status |-> status,
                           updated |-> (nodeId :> [node EXCEPT !.effectiveStatus = status])
                                           @@ below.updated])

\* walk that gives a node with children its own explicitStatus when it has one
walkExplicitFirst(nodes, updated, nodeId) ==
    IF nodeId \notin DOMAIN nodes THEN [status |-> "UNAVAILABLE", updated |-> updated]
    ELSE LET node == nodes[nodeId]
         IN  IF Len(node.children) = 0
             THEN LET status == IF node.explicitStatus /= Undefined
                                THEN node.explicitStatus ELSE node.defaultStatus
                  IN  [status |-> status,
                       updated |-> (nodeId :> [node EXCEPT !.effectiveStatus = status]) @@ updated]
             ELSE Bind(walkChildren(nodes, updated, node.children, 1, <<>>), LAMBDA below :
                      LET childStatuses == below.statuses
                          allSame == \A i \in 1..Len(childStatuses) :
                                         childStatuses[i] = childStatuses[1]
                          status == IF node.explicitStatus /= Undefined
                                    THEN node.explicitStatus
                                    ELSE IF allSame THEN childStatuses[1] ELSE "PARTIAL"
                      IN  [status |-> status,
                           updated |-> (nodeId :> [node EXCEPT !.effectiveStatus = status])
                                           @@ below.updated])

\* walk without the allSame test: a node with children takes childStatuses[0]
walkFirstChild(nodes, updated, nodeId) ==
    IF nodeId \notin DOMAIN nodes THEN [status |-> "UNAVAILABLE", updated |-> updated]
    ELSE LET node == nodes[nodeId]
         IN  IF Len(node.children) = 0
             THEN LET status == IF node.explicitStatus /= Undefined
                                THEN node.explicitStatus ELSE node.defaultStatus
                  IN  [status |-> status,
                       updated |-> (nodeId :> [node EXCEPT !.effectiveStatus = status]) @@ updated]
             ELSE Bind(walkChildren(nodes, updated, node.children, 1, <<>>), LAMBDA below :
                      LET childStatuses == below.statuses
                          allSame == \A i \in 1..Len(childStatuses) :
                                         childStatuses[i] = childStatuses[1]
                          status == childStatuses[1]
                      IN  [status |-> status,
                           updated |-> (nodeId :> [node EXCEPT !.effectiveStatus = status])
                                           @@ below.updated])

\* walk of computeEffectiveStatuses: reads nodes, writes updated, returns the status
walk(nodes, updated, nodeId) ==
    IF nodeId \notin DOMAIN nodes THEN [status |-> "UNAVAILABLE", updated |-> updated]
    ELSE LET node == nodes[nodeId]
         IN  IF Len(node.children) = 0
             THEN LET status == IF node.explicitStatus /= Undefined
                                THEN node.explicitStatus ELSE node.defaultStatus
                  IN  [status |-> status,
                       updated |-> (nodeId :> [node EXCEPT !.effectiveStatus = status]) @@ updated]
             ELSE Bind(walkChildren(nodes, updated, node.children, 1, <<>>), LAMBDA below :
                      LET childStatuses == below.statuses
                          allSame == \A i \in 1..Len(childStatuses) :
                                         childStatuses[i] = childStatuses[1]
                          status == IF allSame THEN childStatuses[1] ELSE "PARTIAL"
                      IN  [status |-> status,
                           updated |-> (nodeId :> [node EXCEPT !.effectiveStatus = status])
                                           @@ below.updated])

\* node.children.map((childId) => walk(childId))
walkChildren(nodes, updated, children, i, statuses) ==
    IF i > Len(children) THEN [statuses |-> statuses, updated |-> updated]
    ELSE Bind(walk(nodes, updated, children[i]), LAMBDA one :
             walkChildren(nodes, one.updated, children, i + 1, Append(statuses, one.status)))

\* The map at ref is read; the result is written to a clone of it, whose
\* reference is returned.
computeEffectiveStatuses(h, rootId, ref) ==
    Bind(cloneNodes(h, ref), LAMBDA clone :
    Bind(walk(clone.heap[ref], clone.heap[clone.ref], rootId), LAMBDA walked :
        [heap |-> [clone.heap EXCEPT ![clone.ref] = walked.updated], ref |-> clone.ref]))

\* cidrs.map(parseCidrRange)
parseAll(cidrs) == [i \in 1..Len(cidrs) |-> parseCidrRange(cidrs[i])]

\* buildSubnetTree applying unavailableCidrs first and inUseCidrs last
buildSubnetTreeUnavailableFirst(h, p) ==
    Bind(parseCidrRange(p.rootCidr), LAMBDA rootRange :
    Bind(buildNodeTree(rootRange, p.minPrefix, NoNodes, Undefined), LAMBDA nodes :
    Bind(parseAll(p.assignedCidrs), LAMBDA assignedRanges :
    Bind(setDefaultStatuses(nodes, assignedRanges), LAMBDA defaultedNodes :
    Bind(applyExplicitFromRanges(defaultedNodes, p.unavailableCidrs, "UNAVAILABLE"), LAMBDA inUse :
    Bind(applyExplicitFromRanges(inUse, p.reservedCidrs, "RESERVED"), LAMBDA reserved :
    Bind(applyExplicitFromRanges(reserved, p.inUseCidrs, "IN_USE"),
         LAMBDA unavailable :
    Bind(computeEffectiveStatuses(Append(h, unavailable), rootRange.cidr, Len(h) + 1),
         LAMBDA nodesWithEffective :
        [outcome |-> "returned", heap |-> nodesWithEffective.heap,
         tree |-> [rootId |-> rootRange.cidr, nodes |-> nodesWithEffective.ref]]))))))))

\* Returns the heap with the maps the call allocated and the tree it returned.
buildSubnetTree(h, p) ==
    Bind(parseCidrRange(p.rootCidr), LAMBDA rootRange :
    Bind(buildNodeTree(rootRange, p.minPrefix, NoNodes, Undefined), LAMBDA nodes :
    Bind(parseAll(p.assignedCidrs), LAMBDA assignedRanges :
    Bind(setDefaultStatuses(nodes, assignedRanges), LAMBDA defaultedNodes :
    Bind(applyExplicitFromRanges(defaultedNodes, p.inUseCidrs, "IN_USE"), LAMBDA inUse :
    Bind(applyExplicitFromRanges(inUse, p.reservedCidrs, "RESERVED"), LAMBDA reserved :
    Bind(applyExplicitFromRanges(reserved, p.unavailableCidrs, "UNAVAILABLE"),
         LAMBDA unavailable :
    Bind(computeEffectiveStatuses(Append(h, unavailable), rootRange.cidr, Len(h) + 1),
         LAMBDA nodesWithEffective :
        [outcome |-> "returned", heap |-> nodesWithEffective.heap,
         tree |-> [rootId |-> rootRange.cidr, nodes |-> nodesWithEffective.ref]]))))))))

\* updateNodeStatus without the call of computeEffectiveStatuses: the edited
\* clone is returned as it is
updateNodeStatusNoRecompute(h, t, nodeId, status, cascade) ==
    IF ~HasEntry(h[t.nodes], nodeId) THEN [outcome |-> "returned", heap |-> h, tree |-> t]
    ELSE Bind(cloneNodes(h, t.nodes), LAMBDA clone :
         IF nodeId \notin DOMAIN h[t.nodes]
         THEN [outcome |-> "TypeError", heap |-> clone.heap, tree |-> t]
         ELSE Bind([clone.heap EXCEPT ![clone.ref] =
                       IF cascade
                       THEN applyExplicitStatusToSubtree(clone.heap[clone.ref], nodeId, status)
                       ELSE [@ EXCEPT ![nodeId].explicitStatus = status]], LAMBDA edited :
                  [outcome |-> "returned", heap |-> edited,
                   tree |-> [rootId |-> t.rootId, nodes |-> clone.ref]]))

\* updateNodeStatus whose cascade starts at the root of the tree instead of
\* at the node
updateNodeStatusCascadeFromRoot(h, t, nodeId, status, cascade) ==
    IF ~HasEntry(h[t.nodes], nodeId) THEN [outcome |-> "returned", heap |-> h, tree |-> t]
    ELSE Bind(cloneNodes(h, t.nodes), LAMBDA clone :
         IF nodeId \notin DOMAIN h[t.nodes]
         THEN [outcome |-> "TypeError", heap |-> clone.heap, tree |-> t]
         ELSE Bind([clone.heap EXCEPT ![clone.ref] =
                       IF cascade
                       THEN applyExplicitStatusToSubtree(clone.heap[clone.ref], t.rootId, status)
                       ELSE [@ EXCEPT ![nodeId].explicitStatus = status]], LAMBDA edited :
              Bind(computeEffectiveStatuses(edited, t.rootId, clone.ref), LAMBDA recomputed :
                  [outcome |-> "returned", heap |-> recomputed.heap,
                   tree |-> [rootId |-> t.rootId, nodes |-> recomputed.ref]])))

\* outcome "returned": tree is the value returned. outcome "TypeError": the call
\* threw and tree is the caller's own. For an inherited name the guard of the
\* first line passes; with cascade, applyExplicitStatusToSubtree then reads
\* node.children.forEach of the inherited function, and without it cloneNodes in
\* computeEffectiveStatuses spreads the children of the entry just written,
\* which has none.
updateNodeStatus(h, t, nodeId, status, cascade) ==
    IF ~HasEntry(h[t.nodes], nodeId) THEN [outcome |-> "returned", heap |-> h, tree |-> t]
    ELSE Bind(cloneNodes(h, t.nodes), LAMBDA clone :
         IF nodeId \notin DOMAIN h[t.nodes]
         THEN [outcome |-> "TypeError", heap |-> clone.heap, tree |-> t]
         ELSE Bind([clone.heap EXCEPT ![clone.ref] =
                       IF cascade
                       THEN applyExplicitStatusToSubtree(clone.heap[clone.ref], nodeId, status)
                       ELSE [@ EXCEPT ![nodeId].explicitStatus = status]], LAMBDA edited :
              Bind(computeEffectiveStatuses(edited, t.rootId, clone.ref), LAMBDA recomputed :
                  [outcome |-> "returned", heap |-> recomputed.heap,
                   tree |-> [rootId |-> t.rootId, nodes |-> recomputed.ref]])))

RECURSIVE visit(_, _, _)
RECURSIVE visitChildren(_, _, _, _)
\* visit without the return after a uniform internal node is counted: the node
\* is counted and its children are visited too
visitCountsAndDescends(nodes, totals, nodeId) ==
    IF nodeId \notin DOMAIN nodes THEN totals
    ELSE LET node == nodes[nodeId]
             counted == [totals EXCEPT ![node.effectiveStatus] = NAdd(@, node.totalIPs)]
         IN  IF Len(node.children) = 0
             THEN IF node.effectiveStatus /= "PARTIAL" THEN counted ELSE totals
             ELSE IF node.effectiveStatus = "PARTIAL"
                  THEN visitChildren(nodes, totals, node.children, 1)
                  ELSE visitChildren(nodes, counted, node.children, 1)

\* visit counting a node under its explicitStatus when it has one:
\* totals[node.explicitStatus ?? node.effectiveStatus]
visitByExplicit(nodes, totals, nodeId) ==
    IF nodeId \notin DOMAIN nodes THEN totals
    ELSE LET node == nodes[nodeId]
             bucket == IF node.explicitStatus /= Undefined
                       THEN node.explicitStatus ELSE node.effectiveStatus
             counted == [totals EXCEPT ![bucket] = NAdd(@, node.totalIPs)]
         IN  IF Len(node.children) = 0
             THEN IF node.effectiveStatus /= "PARTIAL" THEN counted ELSE totals
             ELSE IF node.effectiveStatus = "PARTIAL"
                  THEN visitChildren(nodes, totals, node.children, 1)
                  ELSE counted

visit(nodes, totals, nodeId) ==
    IF nodeId \notin DOMAIN nodes THEN totals
    ELSE LET node == nodes[nodeId]
             counted == [totals EXCEPT ![node.effectiveStatus] = NAdd(@, node.totalIPs)]
         IN  IF Len(node.children) = 0
             THEN IF node.effectiveStatus /= "PARTIAL" THEN counted ELSE totals
             ELSE IF node.effectiveStatus = "PARTIAL"
                  THEN visitChildren(nodes, totals, node.children, 1)
                  ELSE counted

\* node.children.forEach(visit)
visitChildren(nodes, totals, children, i) ==
    IF i > Len(children) THEN totals
    ELSE Bind(visit(nodes, totals, children[i]), LAMBDA counted :
             visitChildren(nodes, counted, children, i + 1))

calculateStatusTotals(h, t) ==
    Bind(h[t.nodes], LAMBDA nodes :
    Bind([k \in ExplicitStatus \cup {"total"} |->
             IF k = "total" /\ t.rootId \in DOMAIN nodes
             THEN nodes[t.rootId].totalIPs ELSE NZero], LAMBDA totals :
        visit(nodes, totals, t.rootId)))

\* Object.values(nodes): the nodes in the order their keys were inserted.
\* buildNodeTree inserts a node, then the nodes below its first child, then
\* those below its second; setDefaultStatuses, cloneNodes and
\* computeEffectiveStatuses copy the keys in the order they find them.
RECURSIVE ObjectValues(_, _)
RECURSIVE ObjectValuesBelow(_, _, _, _)
ObjectValues(nodes, nodeId) ==
    IF nodeId \notin DOMAIN nodes THEN <<>>
    ELSE ObjectValuesBelow(nodes, nodes[nodeId].children, 1, <<nodes[nodeId]>>)

ObjectValuesBelow(nodes, children, i, values) ==
    IF i > Len(children) THEN values
    ELSE Bind(values \o ObjectValues(nodes, children[i]), LAMBDA more :
             ObjectValuesBelow(nodes, children, i + 1, more))

\* prefixes.includes(prefix)
Includes(prefixes, prefix) == \E i \in 1..Len(prefixes) : prefixes[i] = prefix

\* sort((a, b) => a.start - b.start): the sort is stable, a node goes behind
\* the nodes already placed that do not start after it
RECURSIVE sortByStart(_, _, _)
sortByStart(list, i, sorted) ==
    IF i > Len(list) THEN sorted
    ELSE LET before == SelectSeq(sorted, LAMBDA b : NLe(b.start, list[i].start))
             after == SelectSeq(sorted, LAMBDA b : ~NLe(b.start, list[i].start))
         IN  Bind(before \o <<list[i]>> \o after, LAMBDA placed :
                 sortByStart(list, i + 1, placed))

\* getFreeBlocks with the filter on defaultStatus in place of effectiveStatus
getFreeBlocksByDefault(h, t, prefixes) ==
    Bind(ObjectValues(h[t.nodes], t.rootId), LAMBDA values :
    Bind(SelectSeq(values, LAMBDA node :
             node.defaultStatus = "FREE" /\ Includes(prefixes, node.prefix)),
         LAMBDA kept : sortByStart(kept, 1, <<>>)))

getFreeBlocks(h, t, prefixes) ==
    Bind(ObjectValues(h[t.nodes], t.rootId), LAMBDA values :
    Bind(SelectSeq(values, LAMBDA node :
             node.effectiveStatus = "FREE" /\ Includes(prefixes, node.prefix)),
         LAMBDA kept : sortByStart(kept, 1, <<>>)))

----------------------------------------------------------------------------
(* The inputs *)

\* the updateNodeStatus calls one run makes
MaxUpdates == 2

Cidr(a, b, c, d, p) == [addr |-> <<a, b, c, d>>, prefix |-> p]

\* the value a.b.c.d of a valid address
ValueOf(addr) == Num(addr[1] * 256 + addr[2], addr[3] * 256 + addr[4])

\* the valid address of a value below 2^32
OctetsOf(n) == <<n[1] \div 256, n[1] % 256, n[2] \div 256, n[2] % 256>>

\* Addresses of four octets in 0..255, with and without host bits, on both
\* sides of 2^31.
AddrInputs ==
    {<<0, 0, 0, 0>>, <<10, 0, 0, 0>>, <<10, 0, 0, 5>>, <<192, 168, 1, 130>>,
     <<128, 0, 0, 1>>, <<255, 255, 255, 255>>}

\* every valid CIDR string over AddrInputs
CidrInputs == {[addr |-> a, prefix |-> p] : a \in AddrInputs, p \in 0..32}

\* Well-formed plans with rootPrefix <= minPrefix: a tree of depth 2 and one of
\* depth 1 whose root CIDR carries host bits.
Plans ==
    {[rootCidr |-> Cidr(10, 0, 0, 0, 30), minPrefix |-> 32,
      assignedCidrs |-> <<Cidr(10, 0, 0, 0, 31)>>,
      inUseCidrs |-> <<Cidr(10, 0, 0, 0, 32)>>,
      reservedCidrs |-> <<>>, unavailableCidrs |-> <<>>],
     [rootCidr |-> Cidr(192, 168, 1, 130, 25), minPrefix |-> 26,
      assignedCidrs |-> <<Cidr(192, 168, 1, 128, 26)>>,
      inUseCidrs |-> <<>>,
      reservedCidrs |-> <<Cidr(192, 168, 1, 192, 26)>>, unavailableCidrs |-> <<>>]}

\* Root CIDR strings for buildSubnetTree: well formed, and malformed in each way
\* (three octets, an octet of 256, a prefix of -1).
RootInputs ==
    {Cidr(10, 0, 0, 0, 30), Cidr(10, 0, 0, 5, 30), Cidr(10, 0, 0, 5, 0),
     [addr |-> <<10, 0, 0>>, prefix |-> 30], Cidr(10, 0, 0, 256, 30),
     Cidr(10, 0, 0, 0, -1)}

\* minPrefix - rootPrefix: below the root, at the root, and one and two levels down
DepthInputs == {-1, 0, 1, 2}

AssignedInputs ==
    {<<>>, <<Cidr(10, 0, 0, 0, 31)>>, <<[addr |-> <<10, 0, 0, 0, 0>>, prefix |-> 31]>>}

InUseInputs ==
    {<<>>, <<Cidr(10, 0, 0, 2, 31)>>, <<Cidr(10, 0, 0, 0, -1)>>,
     <<[addr |-> <<10, 0, 0>>, prefix |-> 31]>>}

ReservedInputs == {<<>>, <<Cidr(10, 0, 0, 0, 31)>>}

UnavailableInputs == {<<>>, <<Cidr(10, 0, 0, 256, 31)>>}

BuildPlans ==
    {[rootCidr |-> r, minPrefix |-> r.prefix + d, assignedCidrs |-> a, inUseCidrs |-> u,
      reservedCidrs |-> v, unavailableCidrs |-> w] :
        r \in RootInputs, d \in DepthInputs, a \in AssignedInputs, u \in InUseInputs,
        v \in ReservedInputs, w \in UnavailableInputs}

\* src/src/config/samplePlan.ts
defaultPlanConfig ==
    [rootCidr |-> Cidr(10, 1, 240, 0, 20),
     minPrefix |-> 27,
     assignedCidrs |-> <<Cidr(10, 1, 241, 0, 24), Cidr(10, 1, 242, 0, 24),
                         Cidr(10, 1, 243, 0, 24), Cidr(10, 1, 244, 0, 22),
                         Cidr(10, 1, 249, 0, 24)>>,
     inUseCidrs |-> <<Cidr(10, 1, 244, 0, 23), Cidr(10, 1, 246, 0, 23),
                      Cidr(10, 1, 249, 0, 24), Cidr(10, 1, 241, 128, 25),
                      Cidr(10, 1, 243, 128, 25), Cidr(10, 1, 242, 0, 26),
                      Cidr(10, 1, 242, 64, 26), Cidr(10, 1, 242, 128, 26),
                      Cidr(10, 1, 242, 192, 26), Cidr(10, 1, 241, 0, 27),
                      Cidr(10, 1, 243, 0, 27), Cidr(10, 1, 243, 32, 27)>>,
     reservedCidrs |-> <<>>,
     unavailableCidrs |-> <<>>]

\* the sample plan, and the plans with the first entries of its lists and a
\* minPrefix of 26 or 27
SamplePlans ==
    {[defaultPlanConfig EXCEPT !.assignedCidrs = SubSeq(@, 1, a),
                               !.inUseCidrs = SubSeq(@, 1, u),
                               !.minPrefix = m] :
        a \in 0..Len(defaultPlanConfig.assignedCidrs),
        u \in 0..Len(defaultPlanConfig.inUseCidrs),
        m \in {26, 27}}

\* The inputs of a second calculateSubnet call, given the first result: the
\* blocks of its size one below, one and two above its network address and the
\* block itself, and its lower half.
NeighbourInputs(subnet) ==
    LET n == ValueOf(subnet.networkAddress)
        size == NPow2(32 - subnet.cidr)
        values == {v \in {n, NAdd(n, size), NAdd(n, NAdd(size, size))}
                             \cup (IF NLe(size, n) THEN {NSub(n, size)} ELSE {}) :
                      NLt(v, NPow2(32))}
    IN  {[addr |-> OctetsOf(v), prefix |-> subnet.cidr] : v \in values}
            \cup {[addr |-> subnet.networkAddress, prefix |-> p] :
                     p \in {subnet.cidr + 1} \cap 0..32}

\* the prefixes arrays getFreeBlocks is asked for
PrefixesInputs == {<<>>, <<32>>, <<31, 32>>, <<26, 25, 24>>, <<30, 31, 32, 31>>}

\* CIDR strings for the inUse, reserved and unavailable lists of a plan with
\* root 10.0.0.0/30: a half of the root written with a host bit set, a single
\* address in that half, a block outside the root and a block that holds the
\* root.
ListedInputs ==
    {Cidr(10, 0, 0, 1, 31), Cidr(10, 0, 0, 1, 32), Cidr(10, 0, 0, 4, 30),
     Cidr(10, 0, 0, 0, 29)}

MaxListed == 3

\* the sequences of at most n listed CIDR strings
ListedUpTo(n) == UNION {[1..k -> ListedInputs] : k \in 0..n}

\* the plans that cut the sequence all into inUseCidrs, reservedCidrs and
\* unavailableCidrs
ListSplits(all, m) ==
    UNION {{[rootCidr |-> Cidr(10, 0, 0, 0, 30), minPrefix |-> m,
             assignedCidrs |-> <<Cidr(10, 0, 0, 0, 31)>>,
             inUseCidrs |-> SubSeq(all, 1, i),
             reservedCidrs |-> SubSeq(all, i + 1, j),
             unavailableCidrs |-> SubSeq(all, j + 1, Len(all))] :
               j \in i..Len(all)} : i \in 0..Len(all)}

\* Plans whose three status lists hold MaxListed entries at most between them,
\* with the tree split down to /31 or to /32.
ListPlans == UNION {ListSplits(all, m) : all \in ListedUpTo(MaxListed), m \in {31, 32}}

\* Node ids handed to updateNodeStatus: every id of the tree, a CIDR key and a
\* word that are no node, and a name inherited from Object.prototype.
NodeIdInputs(nodes) == DOMAIN nodes \cup {"172.16.0.0/12", "no-such-node", "constructor"}

----------------------------------------------------------------------------
(* The state machine *)

NoRange == [cidr |-> "", network |-> <<>>, prefix |-> 0, start |-> NZero, end |-> NZero,
            size |-> NZero]

NoPlan == [rootCidr |-> Cidr(0, 0, 0, 0, 0), minPrefix |-> 0, assignedCidrs |-> <<>>,
           inUseCidrs |-> <<>>, reservedCidrs |-> <<>>, unavailableCidrs |-> <<>>]

NoTree == [rootId |-> "", nodes |-> 0]

NoCall == [op |-> "none", nodeId |-> "", status |-> "", cascade |-> FALSE, outcome |-> ""]

NoJoin == [outcome |-> "", subnet |-> <<>>]

Idle ==
    /\ heap = <<>>
    /\ tree = NoTree
    /\ retained = <<>>
    /\ last = NoCall
    /\ updates = 0
    /\ subnets = <<>>
    /\ joined = NoJoin

\* A caller holds a plan and has built nothing yet.
Init ==
    /\ pc = "config"
    /\ plan \in Plans
    /\ input = Cidr(0, 0, 0, 0, 0) /\ parsed = NoRange /\ reparsed = NoRange
    /\ Idle

InitBuild ==
    /\ pc = "config"
    /\ plan \in BuildPlans
    /\ input = Cidr(0, 0, 0, 0, 0) /\ parsed = NoRange /\ reparsed = NoRange
    /\ Idle

InitLists ==
    /\ pc = "config"
    /\ plan \in ListPlans
    /\ input = Cidr(0, 0, 0, 0, 0) /\ parsed = NoRange /\ reparsed = NoRange
    /\ Idle

InitSample ==
    /\ pc = "config"
    /\ plan \in SamplePlans
    /\ input = Cidr(0, 0, 0, 0, 0) /\ parsed = NoRange /\ reparsed = NoRange
    /\ Idle

InitCalc ==
    /\ pc = "calc"
    /\ input \in CidrInputs
    /\ parsed = NoRange /\ reparsed = NoRange
    /\ plan = NoPlan
    /\ Idle

InitParse ==
    /\ pc = "parse"
    /\ input \in CidrInputs
    /\ parsed = NoRange /\ reparsed = NoRange
    /\ plan = NoPlan
    /\ Idle

ParseCidrRange ==
    /\ pc = "parse"
    /\ parsed' = parseCidrRange(input)
    /\ pc' = "parsed"
    /\ UNCHANGED <<input, reparsed, plan, heap, tree, retained, last, updates,
                   subnets, joined>>

\* parseCidrRange of the canonical id of the first result
ParseCanonical ==
    /\ pc = "parsed"
    /\ reparsed' = parseCidrRange(SplitKey(parsed))
    /\ pc' = "reparsed"
    /\ UNCHANGED <<input, parsed, plan, heap, tree, retained, last, updates,
                   subnets, joined>>

BuildSubnetTree ==
    /\ pc = "config"
    /\ \E built \in {buildSubnetTree(heap, plan)} :
           /\ heap' = built.heap
           /\ tree' = built.tree
           /\ last' = [NoCall EXCEPT !.op = "buildSubnetTree", !.outcome = built.outcome]
    /\ pc' = "built"
    /\ UNCHANGED <<input, parsed, reparsed, plan, retained, updates, subnets, joined>>

\* The caller passes the tree it holds, keeps that value, and takes the returned
\* tree as its current one; a call that throws leaves it with the tree it had.
UpdateNodeStatus ==
    /\ pc = "built"
    /\ updates < MaxUpdates
    /\ \E nodeId \in NodeIdInputs(heap[tree.nodes]), status \in ExplicitStatus,
          cascade \in BOOLEAN :
          \E result \in {updateNodeStatus(heap, tree, nodeId, status, cascade)} :
              /\ heap' = result.heap
              /\ tree' = result.tree
              /\ retained' = Append(retained, [tree |-> tree, nodes |-> heap[tree.nodes]])
              /\ last' = [op |-> "updateNodeStatus", nodeId |-> nodeId, status |-> status,
                          cascade |-> cascade, outcome |-> result.outcome]
    /\ updates' = updates + 1
    /\ UNCHANGED <<pc, input, parsed, reparsed, plan, subnets, joined>>

\* calculateSubnet({ipAddress, cidr}) of the input
CalculateSubnet ==
    /\ pc = "calc"
    /\ subnets' = <<calculateSubnet(input)>>
    /\ pc' = "calculated"
    /\ UNCHANGED <<input, parsed, reparsed, plan, heap, tree, retained, last, updates,
                   joined>>

\* calculateSubnet of a block beside, on or inside the first
CalculateNeighbour ==
    /\ pc = "calculated"
    /\ \E other \in NeighbourInputs(subnets[1]) :
           subnets' = Append(subnets, calculateSubnet(other))
    /\ pc' = "pair"
    /\ UNCHANGED <<input, parsed, reparsed, plan, heap, tree, retained, last, updates,
                   joined>>

\* joinSubnets(subnet1, subnet2) of the two, in either order
JoinSubnets ==
    /\ pc = "pair"
    /\ \E swap \in BOOLEAN :
           /\ subnets' = IF swap THEN <<subnets[2], subnets[1]>> ELSE subnets
           /\ joined' = joinSubnets(subnets'[1], subnets'[2])
    /\ pc' = "joined"
    /\ UNCHANGED <<input, parsed, reparsed, plan, heap, tree, retained, last, updates>>

Next == BuildSubnetTree \/ UpdateNodeStatus

Spec == Init /\ [][Next]_vars

SpecBuild == InitBuild /\ [][BuildSubnetTree]_vars

SpecSample == InitSample /\ [][BuildSubnetTree]_vars

SpecLists == InitLists /\ [][BuildSubnetTree]_vars

NextCalc == CalculateSubnet \/ CalculateNeighbour \/ JoinSubnets

SpecCalc == InitCalc /\ [][NextCalc]_vars

NextParse == ParseCidrRange \/ ParseCanonical

SpecParse == InitParse /\ [][NextParse]_vars

----------------------------------------------------------------------------
(* What the claims speak of *)

\* the node map of the tree the caller holds
Nodes == heap[tree.nodes]

\* the tree value and the node map the last updateNodeStatus call was given
InputTree == retained[Len(retained)].tree

InputNodes == retained[Len(retained)].nodes

Updated == pc = "built" /\ last.op = "updateNodeStatus"

\* the set S of node ids with every node below them
RECURSIVE WithDescendants(_, _)
WithDescendants(nodes, S) ==
    LET grown == S \cup {c \in DOMAIN nodes : \E id \in S : \E i \in 1..Len(nodes[id].children) :
                                                  nodes[id].children[i] = c}
    IN  IF grown = S THEN S ELSE WithDescendants(nodes, grown)

\* the fields of a node that are no status set by an update
Identity(node) ==
    [id |-> node.id, network |-> node.network, prefix |-> node.prefix,
     start |-> node.start, end |-> node.end, parentId |-> node.parentId,
     children |-> node.children, totalIPs |-> node.totalIPs,
     defaultStatus |-> node.defaultStatus]

\* the tree value and the node map buildSubnetTree returned, once an update
\* has been made
BuiltTree == retained[1].tree

BuiltNodes == retained[1].nodes

Sum4(t) == NAdd(NAdd(t["IN_USE"], t["FREE"]), NAdd(t["RESERVED"], t["UNAVAILABLE"]))

ValidPrefix(c) == c.prefix \in 0..32

ValidAddress(c) == Len(c.addr) = 4 /\ \A i \in 1..Len(c.addr) : c.addr[i] \in 0..255

Elements(seq) == {seq[i] : i \in 1..Len(seq)}

\* every CIDR string of a plan
AllCidrs(p) ==
    {p.rootCidr} \cup Elements(p.assignedCidrs) \cup Elements(p.inUseCidrs)
        \cup Elements(p.reservedCidrs) \cup Elements(p.unavailableCidrs)

WellFormed(p) == \A c \in AllCidrs(p) : ValidPrefix(c) /\ ValidAddress(c)

\* the address of a valid CIDR string with its 32 - P host bits cleared
ClearedNetwork(c) == OctetsOf(NSub(ValueOf(c.addr), NModPow2(ValueOf(c.addr), 32 - c.prefix)))

\* rootPrefix <= minPrefix <= 32 in a plan of well-formed CIDR strings
Splittable(p) ==
    WellFormed(p) /\ p.rootCidr.prefix <= p.minPrefix /\ p.minPrefix <= 32

\* end - start + 1
SizeOf(node) == NAdd(NSub(node.end, node.start), NOne)

\* the number of parentId links from a node up to the root
RECURSIVE DepthOf(_, _)
DepthOf(nodes, id) ==
    IF nodes[id].parentId = Undefined THEN 0 ELSE 1 + DepthOf(nodes, nodes[id].parentId)

MaxUint32 == <<Limb - 1, Limb - 1>>

----------------------------------------------------------------------------
(* The claims *)

\* C1: in every tree buildSubnetTree returned and updateNodeStatus calls then
\* changed, the four buckets of calculateStatusTotals sum to its total, and the
\* total is the root's totalIPs.
C1_BucketsSumToTotal ==
    pc = "built" =>
        \E t \in {calculateStatusTotals(heap, tree)} :
            /\ Sum4(t) = t["total"]
            /\ t["total"] = Nodes[tree.rootId].totalIPs

\* C1 witness: after an update the root is PARTIAL and each of the four buckets
\* holds addresses.
C1_Witness ==
    /\ Updated /\ last.outcome = "returned"
    /\ Nodes[tree.rootId].effectiveStatus = "PARTIAL"
    /\ \A k \in ExplicitStatus : calculateStatusTotals(heap, tree)[k] /= NZero

\* C2 as stated: a node is PARTIAL only if it has two children and their
\* effective statuses differ from each other.
C2_PartialOnlyIfChildrenDiffer ==
    pc = "built" =>
        \A id \in DOMAIN Nodes :
            Nodes[id].effectiveStatus = "PARTIAL" =>
                /\ Len(Nodes[id].children) = 2
                /\ Nodes[Nodes[id].children[1]].effectiveStatus
                       /= Nodes[Nodes[id].children[2]].effectiveStatus

\* C2 as amended: a node is PARTIAL only if it has two children and their
\* effective statuses differ from each other or are both PARTIAL.
C2_PartialOnlyIfChildrenDifferOrPartial ==
    pc = "built" =>
        \A id \in DOMAIN Nodes :
            Nodes[id].effectiveStatus = "PARTIAL" =>
                /\ Len(Nodes[id].children) = 2
                /\ \/ Nodes[Nodes[id].children[1]].effectiveStatus
                          /= Nodes[Nodes[id].children[2]].effectiveStatus
                   \/ /\ Nodes[Nodes[id].children[1]].effectiveStatus = "PARTIAL"
                      /\ Nodes[Nodes[id].children[2]].effectiveStatus = "PARTIAL"

\* C2 witness: after an update a node is PARTIAL over two PARTIAL children,
\* another is PARTIAL over children of two statuses.
C2_Witness ==
    /\ Updated /\ last.outcome = "returned"
    /\ \E id \in DOMAIN Nodes :
           /\ Nodes[id].effectiveStatus = "PARTIAL"
           /\ Len(Nodes[id].children) = 2
           /\ Nodes[Nodes[id].children[1]].effectiveStatus = "PARTIAL"
           /\ Nodes[Nodes[id].children[2]].effectiveStatus = "PARTIAL"
    /\ \E id \in DOMAIN Nodes :
           /\ Nodes[id].effectiveStatus = "PARTIAL"
           /\ Len(Nodes[id].children) = 2
           /\ Nodes[Nodes[id].children[1]].effectiveStatus \in ExplicitStatus
           /\ Nodes[Nodes[id].children[2]].effectiveStatus \in ExplicitStatus

\* C3: updateNodeStatus(tree, n, s, true) on a node n of the tree returns a tree
\* in which n and every descendant of n has explicitStatus s.
C3_CascadeSetsWholeSubtree ==
    (Updated /\ last.cascade /\ last.nodeId \in DOMAIN InputNodes) =>
        /\ last.outcome = "returned"
        /\ \A d \in WithDescendants(Nodes, {last.nodeId}) :
               Nodes[d].explicitStatus = last.status

\* C3 witness: a cascade from a node with grandchildren, below which some node
\* had another explicit status and some node had none.
C3_Witness ==
    /\ Updated /\ last.cascade /\ last.nodeId \in DOMAIN InputNodes
    /\ \E c \in DOMAIN Nodes : \E g \in DOMAIN Nodes :
           /\ Nodes[c].parentId = last.nodeId
           /\ Nodes[g].parentId = c
    /\ \E d \in WithDescendants(InputNodes, {last.nodeId}) :
           InputNodes[d].explicitStatus \notin {Undefined, last.status}
    /\ \E d \in WithDescendants(InputNodes, {last.nodeId}) :
           InputNodes[d].explicitStatus = Undefined

\* C4: updateNodeStatus with a nodeId that is no key of tree.nodes never fails
\* and returns a tree equal to its input, for either value of cascade.
C4_UnknownIdIsNoOp ==
    (Updated /\ last.nodeId \notin DOMAIN InputNodes) =>
        /\ last.outcome = "returned"
        /\ tree.rootId = InputTree.rootId
        /\ Nodes = InputNodes

\* C5: updateNodeStatus does not modify its input: every tree value the caller
\* held before a call has the node map it had, and an update of an existing node
\* shows in the returned tree, which is another map.
C5_InputsUnmodified ==
    pc = "built" =>
        /\ \A i \in 1..Len(retained) : heap[retained[i].tree.nodes] = retained[i].nodes
        /\ (Updated /\ last.nodeId \in DOMAIN InputNodes) =>
               /\ last.outcome = "returned"
               /\ tree.nodes /= InputTree.nodes
               /\ Nodes[last.nodeId].explicitStatus = last.status

\* C5 witness: two updates, each of which returned a tree that differs from its
\* input.
C5_Witness ==
    /\ Updated /\ Len(retained) = 2
    /\ retained[1].nodes /= retained[2].nodes
    /\ retained[2].nodes /= Nodes
    /\ retained[1].nodes /= Nodes

\* C6: buildSubnetTree with minPrefix below the root's prefix fails with
\* InvalidTreeConfig and constructs no node.
C6_RejectsMinPrefixBelowRoot ==
    (pc = "built" /\ WellFormed(plan) /\ plan.minPrefix < plan.rootCidr.prefix) =>
        /\ last.outcome = "InvalidTreeConfig"
        /\ tree = NoTree
        /\ heap = <<>>

\* C7: buildSubnetTree fails and returns no tree when a CIDR string of the
\* config is malformed: InvalidPrefix for a prefix that is no integer in 0..32,
\* InvalidAddress for an address without four octets in 0..255.
C7_RejectsMalformedCidr ==
    (pc = "built" /\ ~WellFormed(plan)) =>
        /\ tree = NoTree
        /\ last.outcome \in {"InvalidPrefix", "InvalidAddress"}
        /\ (\A c \in AllCidrs(plan) : ValidAddress(c)) => last.outcome = "InvalidPrefix"
        /\ (\A c \in AllCidrs(plan) : ValidPrefix(c)) => last.outcome = "InvalidAddress"

\* C8: for every address and every prefix P in 0..32, parseCidrRange returns the
\* network with the 32 - P host bits cleared, so an input with host bits gives
\* the result of the input without them.
C8_HostBitsCleared ==
    pc \in {"parsed", "reparsed"} =>
        /\ parsed.network = ClearedNetwork(input)
        /\ parsed = parseCidrRange([addr |-> ClearedNetwork(input), prefix |-> input.prefix])

\* C9: for every valid CIDR string, 0 <= start <= end <= 2^32 - 1,
\* end = start + 2^(32-P) - 1 and size = end - start + 1 = 2^(32-P).
C9_RangeWithinUint32 ==
    pc \in {"parsed", "reparsed"} =>
        /\ NLe(NZero, parsed.start)
        /\ NLe(parsed.start, parsed.end)
        /\ NLe(parsed.end, MaxUint32)
        /\ parsed.end = NSub(NAdd(parsed.start, NPow2(32 - input.prefix)), NOne)
        /\ parsed.size = NAdd(NSub(parsed.end, parsed.start), NOne)
        /\ parsed.size = NPow2(32 - input.prefix)

\* C10: parsing the canonical id of parseCidrRange(x) gives the network, prefix,
\* start, end and size of parseCidrRange(x).
C10_RoundTripStable ==
    pc = "reparsed" =>
        /\ reparsed.network = parsed.network
        /\ reparsed.prefix = parsed.prefix
        /\ reparsed.start = parsed.start
        /\ reparsed.end = parsed.end
        /\ reparsed.size = parsed.size

\* C10 witness: the canonical id of an input whose host bits the first parse
\* cleared has been parsed again.
C10_Witness ==
    /\ pc = "reparsed"
    /\ parsed.network /= input.addr
    /\ input.prefix \in 1..31

\* C11: for every tree and every prefixes array, getFreeBlocks returns each node
\* that is FREE with a prefix in the array once, no other node, in
\* non-decreasing order of start.
C11_FreeBlocksExactAndSorted ==
    pc = "built" =>
        \A prefixes \in PrefixesInputs :
            \E blocks \in {getFreeBlocks(heap, tree, prefixes)} :
                /\ {blocks[i].id : i \in 1..Len(blocks)}
                       = {id \in DOMAIN Nodes : /\ Nodes[id].effectiveStatus = "FREE"
                                                /\ Includes(prefixes, Nodes[id].prefix)}
                /\ \A i \in 1..Len(blocks) : blocks[i] = Nodes[blocks[i].id]
                /\ \A i, j \in 1..Len(blocks) : i /= j => blocks[i].id /= blocks[j].id
                /\ \A i, j \in 1..Len(blocks) :
                       i < j => NLe(blocks[i].start, blocks[j].start)

\* C11 witness: after an update getFreeBlocks(tree, [32]) returns two or more
\* nodes, while a FREE node has another prefix and a /32 node another status.
C11_Witness ==
    /\ Updated /\ last.outcome = "returned"
    /\ Len(getFreeBlocks(heap, tree, <<32>>)) >= 2
    /\ \E id \in DOMAIN Nodes : Nodes[id].effectiveStatus = "FREE" /\ Nodes[id].prefix /= 32
    /\ \E id \in DOMAIN Nodes : Nodes[id].effectiveStatus /= "FREE" /\ Nodes[id].prefix = 32

\* C12: updateNodeStatus(tree, tree.rootId, IN_USE, true) on a tree reached by
\* any earlier updates returns a tree in which every node's effectiveStatus is
\* IN_USE, and calculateStatusTotals of it gives IN_USE = total and 0 for FREE,
\* RESERVED and UNAVAILABLE.
C12_RootCascadeInUse ==
    (Updated /\ last.nodeId = tree.rootId /\ last.status = "IN_USE" /\ last.cascade) =>
        /\ last.outcome = "returned"
        /\ \A id \in DOMAIN Nodes : Nodes[id].effectiveStatus = "IN_USE"
        /\ \E t \in {calculateStatusTotals(heap, tree)} :
               /\ t["IN_USE"] = t["total"]
               /\ t["total"] = Nodes[tree.rootId].totalIPs
               /\ t["FREE"] = NZero /\ t["RESERVED"] = NZero /\ t["UNAVAILABLE"] = NZero

\* C12 witness: the root was marked IN_USE with cascade in a tree whose root an
\* earlier update had left PARTIAL, with FREE, RESERVED and UNAVAILABLE nodes.
C12_Witness ==
    /\ Updated /\ last.nodeId = tree.rootId /\ last.status = "IN_USE" /\ last.cascade
    /\ Len(retained) = 2
    /\ InputNodes[tree.rootId].effectiveStatus = "PARTIAL"
    /\ \A s \in {"FREE", "RESERVED", "UNAVAILABLE"} :
           \E id \in DOMAIN InputNodes : InputNodes[id].effectiveStatus = s

\* C13: for the sample plan calculateStatusTotals(buildSubnetTree(plan)) gives
\* total = 4096, IN_USE = 1888, FREE = 160, RESERVED = 0, UNAVAILABLE = 2048.
C13_SamplePlanTotals ==
    (pc = "built" /\ plan = defaultPlanConfig) =>
        calculateStatusTotals(heap, tree)
            = [k \in ExplicitStatus \cup {"total"} |->
                  CASE k = "total" -> Num(0, 4096)
                    [] k = "IN_USE" -> Num(0, 1888)
                    [] k = "FREE" -> Num(0, 160)
                    [] k = "RESERVED" -> Num(0, 0)
                    [] k = "UNAVAILABLE" -> Num(0, 2048)]

\* C13 witness: the tree of the sample plan is built: 255 nodes, a PARTIAL root.
C13_Witness ==
    /\ pc = "built" /\ plan = defaultPlanConfig
    /\ last.outcome = "returned"
    /\ Cardinality(DOMAIN Nodes) = 255
    /\ Nodes[tree.rootId].effectiveStatus = "PARTIAL"

\* C14: across any sequence of updateNodeStatus calls the rootId, the set of
\* node ids and each node's network, prefix, start, end, parentId, children,
\* totalIPs and defaultStatus are those buildSubnetTree returned.
C14_IdentityFixed ==
    (pc = "built" /\ Len(retained) >= 1) =>
        \A i \in 1..(Len(retained) + 1) :
            \E held \in {IF i <= Len(retained) THEN retained[i]
                         ELSE [tree |-> tree, nodes |-> Nodes]} :
                /\ held.tree.rootId = BuiltTree.rootId
                /\ DOMAIN held.nodes = DOMAIN BuiltNodes
                /\ \A id \in DOMAIN BuiltNodes :
                       Identity(held.nodes[id]) = Identity(BuiltNodes[id])

\* C14 witness: two updates after which a node's explicitStatus and a node's
\* effectiveStatus are not those of the built tree.
C14_Witness ==
    /\ Updated /\ Len(retained) = 2 /\ last.outcome = "returned"
    /\ retained[2].nodes /= BuiltNodes
    /\ \E id \in DOMAIN Nodes : Nodes[id].explicitStatus /= BuiltNodes[id].explicitStatus
    /\ \E id \in DOMAIN Nodes :
           /\ Len(Nodes[id].children) = 2
           /\ Nodes[id].effectiveStatus /= BuiltNodes[id].effectiveStatus

\* C15: in a tree built with rootPrefix <= minPrefix <= 32 each node has 0 or 2
\* children, 2 iff its prefix is below minPrefix; the children have prefix + 1,
\* the first starts at the node's start, the second at start + size / 2, and
\* the parentId of both is the node.
C15_BinarySplit ==
    (pc = "built" /\ Splittable(plan)) =>
        \A id \in DOMAIN Nodes :
            \E node \in {Nodes[id]} :
                /\ Len(node.children) \in {0, 2}
                /\ Len(node.children) = 2 <=> node.prefix < plan.minPrefix
                /\ Len(node.children) = 2 =>
                       /\ \A i \in 1..2 :
                              /\ node.children[i] \in DOMAIN Nodes
                              /\ Nodes[node.children[i]].prefix = node.prefix + 1
                              /\ Nodes[node.children[i]].parentId = id
                       /\ node.children[1] /= node.children[2]
                       /\ Nodes[node.children[1]].start = node.start
                       /\ Nodes[node.children[2]].start
                              = NAdd(node.start, NHalf(SizeOf(node)))

\* C15 witness: a tree of two levels below the root down to /32 is built, with
\* a node that has children and grandchildren.
C15_Witness ==
    /\ pc = "built" /\ Splittable(plan)
    /\ plan.minPrefix = 32 /\ plan.rootCidr.prefix = 30
    /\ \E id \in DOMAIN Nodes :
           /\ Len(Nodes[id].children) = 2
           /\ Len(Nodes[Nodes[id].children[2]].children) = 2

\* C16: in a built tree the totalIPs of every node with children is the sum of
\* the totalIPs of its two children, and the totalIPs of every node is
\* 2^(32 - prefix).
C16_TotalIPs ==
    (pc = "built" /\ WellFormed(plan) /\ plan.minPrefix <= 32) =>
        \A id \in DOMAIN Nodes :
            /\ Nodes[id].totalIPs = NPow2(32 - Nodes[id].prefix)
            /\ Len(Nodes[id].children) > 0 =>
                   /\ Len(Nodes[id].children) = 2
                   /\ Nodes[id].totalIPs
                          = NAdd(Nodes[Nodes[id].children[1]].totalIPs,
                                 Nodes[Nodes[id].children[2]].totalIPs)

\* C16 witness: a built tree with a /0 root of 2^32 addresses over two levels
\* of children.
C16_Witness ==
    /\ pc = "built" /\ WellFormed(plan)
    /\ Nodes[tree.rootId].prefix = 0
    /\ Nodes[tree.rootId].totalIPs = Num(Limb, 0)
    /\ \E id \in DOMAIN Nodes : Nodes[id].prefix = 2 /\ Nodes[id].totalIPs = Num(Limb \div 4, 0)

\* C17: for rootPrefix <= minPrefix <= 32 buildSubnetTree produces a complete
\* binary tree of depth d = minPrefix - rootPrefix: 2^(d+1) - 1 nodes under
\* distinct ids, each reached once from the root, a node at depth k has prefix
\* rootPrefix + k, and every leaf has prefix minPrefix.
C17_CompleteBinaryTree ==
    (pc = "built" /\ Splittable(plan)) =>
        \E d \in {plan.minPrefix - plan.rootCidr.prefix} :
            /\ Cardinality(DOMAIN Nodes) = 2^(d + 1) - 1
            /\ Len(ObjectValues(Nodes, tree.rootId)) = 2^(d + 1) - 1
            /\ \A id \in DOMAIN Nodes :
                   /\ Nodes[id].id = id
                   /\ Nodes[id].prefix = plan.rootCidr.prefix + DepthOf(Nodes, id)
                   /\ Len(Nodes[id].children) = 0 => Nodes[id].prefix = plan.minPrefix
            /\ \A k \in 0..d :
                   Cardinality({id \in DOMAIN Nodes : DepthOf(Nodes, id) = k}) = 2^k

\* C17 witness: a tree of depth 2 is built from a root given with host bits:
\* 7 nodes, 4 of them leaves at minPrefix.
C17_Witness ==
    /\ pc = "built" /\ Splittable(plan)
    /\ plan.minPrefix - plan.rootCidr.prefix = 2
    /\ plan.rootCidr.addr = <<10, 0, 0, 5>>
    /\ Cardinality(DOMAIN Nodes) = 7
    /\ Cardinality({id \in DOMAIN Nodes : Len(Nodes[id].children) = 0}) = 4

\* C18: whenever canJoinSubnets(s1, s2) is true, joinSubnets(s1, s2) returns a
\* subnet with cidr - 1 whose range [network, broadcast] contains every address
\* of s1 and of s2, and whose network address is the lower of the two input
\* network addresses.
C18_JoinEncompassesBoth ==
    (pc = "joined" /\ canJoinSubnets(subnets[1], subnets[2])) =>
        /\ joined.outcome = "returned"
        /\ joined.subnet.cidr = subnets[1].cidr - 1
        /\ \A i \in 1..2 :
               /\ NLe(ValueOf(joined.subnet.networkAddress),
                      ValueOf(subnets[i].networkAddress))
               /\ NLe(ValueOf(subnets[i].broadcastAddress),
                      ValueOf(joined.subnet.broadcastAddress))
        /\ \E i \in 1..2 :
               joined.subnet.networkAddress = subnets[i].networkAddress

\* C19: for every address and every cidr in 0..32, getNetworkAddress(ip, cidr)
\* is ip with its 32 - cidr host bits cleared and getBroadcastAddress(ip, cidr)
\* is that network address + 2^(32-cidr) - 1.
C19_NetworkAndBroadcast ==
    pc = "calculated" =>
        /\ subnets[1].networkAddress = ClearedNetwork(input)
        /\ subnets[1].broadcastAddress
               = OctetsOf(NAdd(ValueOf(ClearedNetwork(input)),
                               NSub(NPow2(32 - input.prefix), NOne)))

\* C20: for every cidr in 0..32, cidrToMask(cidr) has cidr leading one bits,
\* cidrToWildcard(cidr) has 32 - cidr trailing one bits, and the wildcard is
\* the 32-bit complement of the mask.
C20_WildcardIsComplementOfMask ==
    pc = "calculated" =>
        /\ ValueOf(subnets[1].subnetMask)
               = NSub(NPow2(32), NPow2(32 - subnets[1].cidr))
        /\ ValueOf(subnets[1].wildcardMask)
               = NSub(NPow2(32 - subnets[1].cidr), NOne)
        /\ ValueOf(subnets[1].wildcardMask)
               = NSub(MaxUint32, ValueOf(subnets[1].subnetMask))

\* C21: for every address of four octets in 0..255, ipToInt returns its value,
\* in 0..2^32 - 1 also when the first octet is 128 or more, and intToIP gives
\* the address back; for every n in 0..2^32 - 1, ipToInt(intToIP(n)) = n.
C21_IpIntInverse ==
    pc = "calculated" =>
        /\ \A ip \in {input.addr, subnets[1].networkAddress,
                      subnets[1].broadcastAddress, subnets[1].subnetMask} :
               /\ ipToInt(ip) = ValueOf(ip)
               /\ NLe(NZero, ipToInt(ip)) /\ NLe(ipToInt(ip), MaxUint32)
               /\ intToIP(ipToInt(ip)) = ip
        /\ \A n \in {ValueOf(input.addr), NSub(subnets[1].totalHosts, NOne),
                     NModPow2(ValueOf(input.addr), 32 - input.prefix)} :
               /\ intToIP(n) = OctetsOf(n)
               /\ ipToInt(intToIP(n)) = n

\* C21 witness: calculateSubnet has converted an address whose first octet is
\* 128 or more, with the value 2^32 - 1 among the numbers converted.
C21_Witness ==
    /\ pc = "calculated"
    /\ input.addr[1] >= 128
    /\ NLe(NPow2(31), ipToInt(input.addr))
    /\ NSub(subnets[1].totalHosts, NOne) = MaxUint32

\* C22: after buildSubnetTree and after every updateNodeStatus the stored
\* effectiveStatus of a leaf is its explicitStatus if it has one, else its
\* defaultStatus, and that of a node with children is their common
\* effectiveStatus if the two are equal, else PARTIAL.
C22_AggregationRule ==
    pc = "built" =>
        \A id \in DOMAIN Nodes :
            \E node \in {Nodes[id]} :
                IF Len(node.children) = 0
                THEN node.effectiveStatus
                         = IF node.explicitStatus /= Undefined
                           THEN node.explicitStatus ELSE node.defaultStatus
                ELSE \E first \in {Nodes[node.children[1]].effectiveStatus} :
                     \E second \in {Nodes[node.children[2]].effectiveStatus} :
                         node.effectiveStatus
                             = IF first = second THEN first ELSE "PARTIAL"

\* C22 witness: an update without cascade gave a leaf a status other than its
\* default, and the effectiveStatus of the leaf, its parent and the root are
\* no longer what they were.
C22_Witness ==
    /\ Updated /\ ~last.cascade /\ last.outcome = "returned"
    /\ last.nodeId \in DOMAIN InputNodes
    /\ Len(Nodes[last.nodeId].children) = 0
    /\ Nodes[last.nodeId].defaultStatus /= last.status
    /\ \A id \in {last.nodeId, Nodes[last.nodeId].parentId, tree.rootId} :
           Nodes[id].effectiveStatus /= InputNodes[id].effectiveStatus

\* the addresses first..last of the block a canonical CIDR of the plan names
BlockOf(c) ==
    [start |-> ValueOf(c.addr),
     end |-> NSub(NAdd(ValueOf(c.addr), NPow2(32 - c.prefix)), NOne)]

\* the blocks of plan.assignedCidrs
AssignedBlocks == {BlockOf(plan.assignedCidrs[i]) : i \in 1..Len(plan.assignedCidrs)}

\* C23: in the built tree a node's defaultStatus is FREE if and only if one
\* assigned range alone has start <= node.start and end >= node.end, and is
\* UNAVAILABLE otherwise: also when assigned ranges only overlap the node or
\* cover it only together.
C23_DefaultStatus ==
    (pc = "built" /\ last.outcome = "returned") =>
        \E blocks \in {AssignedBlocks} :
            \A id \in DOMAIN Nodes :
                \E node \in {Nodes[id]} :
                    /\ node.defaultStatus \in {"FREE", "UNAVAILABLE"}
                    /\ node.defaultStatus = "FREE"
                           <=> \E r \in blocks : /\ NLe(r.start, node.start)
                                                  /\ NLe(node.end, r.end)

\* C23 witness: the built sample tree has a node whose two children are each
\* inside one assigned range while no single range holds the node, a node that
\* holds an assigned range without being inside one, and a FREE node.
C23_Witness ==
    /\ pc = "built" /\ last.outcome = "returned"
    /\ \E id \in DOMAIN Nodes :
           /\ Len(Nodes[id].children) = 2
           /\ \A i \in 1..2 : Nodes[Nodes[id].children[i]].defaultStatus = "FREE"
           /\ Nodes[id].defaultStatus = "UNAVAILABLE"
    /\ \E id \in DOMAIN Nodes :
           /\ Nodes[id].defaultStatus = "UNAVAILABLE"
           /\ \E r \in AssignedBlocks :
                  /\ NLe(Nodes[id].start, r.start) /\ NLe(r.end, Nodes[id].end)
                  /\ r.start /= Nodes[id].start

\* the entries of the three status lists in the order of the plan's fields,
\* each with the status its list stands for
Listed(p) ==
    [i \in 1..Len(p.inUseCidrs) |-> [cidr |-> p.inUseCidrs[i], status |-> "IN_USE"]]
        \o [i \in 1..Len(p.reservedCidrs) |->
               [cidr |-> p.reservedCidrs[i], status |-> "RESERVED"]]
        \o [i \in 1..Len(p.unavailableCidrs) |->
               [cidr |-> p.unavailableCidrs[i], status |-> "UNAVAILABLE"]]

\* the canonical id of a well-formed CIDR string
CanonicalId(c) == cidrKey(ClearedNetwork(c), c.prefix)

\* the addresses of the block a well-formed CIDR string lies in
CanonicalBlock(c) == BlockOf([addr |-> ClearedNetwork(c), prefix |-> c.prefix])

\* the positions in listed of the CIDRs that are nodes and have the node id in
\* their subtree
Covering(nodes, listed, id) ==
    {k \in 1..Len(listed) :
        /\ CanonicalId(listed[k].cidr) \in DOMAIN nodes
        /\ \E block \in {CanonicalBlock(listed[k].cidr)} :
               NLe(block.start, nodes[id].start) /\ NLe(nodes[id].end, block.end)}

\* C24: buildSubnetTree applies inUseCidrs, then reservedCidrs, then
\* unavailableCidrs, each in list order: a node in the subtree of listed CIDRs
\* has the explicitStatus of the one applied last, and a node in no such
\* subtree has none.
C24_LastListedWins ==
    (pc = "built" /\ last.outcome = "returned") =>
        \E listed \in {Listed(plan)} :
            \A id \in DOMAIN Nodes :
                \E covering \in {Covering(Nodes, listed, id)} :
                    IF covering = {}
                    THEN Nodes[id].explicitStatus = Undefined
                    ELSE \E k \in covering :
                             /\ \A other \in covering : other <= k
                             /\ Nodes[id].explicitStatus = listed[k].status

\* C24 witness: a built tree with a node in the subtrees of two listed CIDRs of
\* different lists, the later one an ancestor of the earlier, and a node in
\* the subtrees of two where the later one is the descendant.
C24_Witness ==
    /\ pc = "built" /\ last.outcome = "returned"
    /\ \E listed \in {Listed(plan)} :
           /\ \E id \in DOMAIN Nodes :
                  \E k1, k2 \in Covering(Nodes, listed, id) :
                      /\ k1 < k2
                      /\ listed[k1].status /= listed[k2].status
                      /\ listed[k1].cidr.prefix > listed[k2].cidr.prefix
           /\ \E id \in DOMAIN Nodes :
                  \E k1, k2 \in Covering(Nodes, listed, id) :
                      /\ k1 < k2
                      /\ listed[k1].status /= listed[k2].status
                      /\ listed[k1].cidr.prefix < listed[k2].cidr.prefix

\* seq without its k-th element
Without(seq, k) == SubSeq(seq, 1, k - 1) \o SubSeq(seq, k + 1, Len(seq))

\* the plan with one entry less in one of its three status lists
PlansWithout(p, field, k) ==
    CASE field = "inUseCidrs" -> [p EXCEPT !.inUseCidrs = Without(@, k)]
      [] field = "reservedCidrs" -> [p EXCEPT !.reservedCidrs = Without(@, k)]
      [] field = "unavailableCidrs" -> [p EXCEPT !.unavailableCidrs = Without(@, k)]

\* the entries of the three status lists whose canonical id is no node of the
\* tree: the name of the list and the position in it
Ignored(p, nodes) ==
    {e \in {"inUseCidrs", "reservedCidrs", "unavailableCidrs"} \X (1..MaxListed) :
        /\ e[2] <= Len(p[e[1]])
        /\ CanonicalId(p[e[1]][e[2]]) \notin DOMAIN nodes}

\* C25: a well-formed CIDR of inUseCidrs, reservedCidrs or unavailableCidrs
\* whose canonical id is no node id (outside the root, coarser than the root,
\* finer than minPrefix) raises no error and changes nothing: the tree built
\* is the tree built from the plan without that entry.
C25_UnknownListedIgnored ==
    (pc = "built" /\ WellFormed(plan)) =>
        /\ last.outcome = "returned"
        /\ \A e \in Ignored(plan, Nodes) :
               \E other \in {buildSubnetTree(<<>>, PlansWithout(plan, e[1], e[2]))} :
                   /\ other.outcome = "returned"
                   /\ other.tree.rootId = tree.rootId
                   /\ other.heap[other.tree.nodes] = Nodes

\* C25 witness: a built tree whose plan lists a CIDR finer than minPrefix and
\* one that is outside the root or holds it, next to one that set an
\* explicitStatus.
C25_Witness ==
    /\ pc = "built" /\ last.outcome = "returned"
    /\ \E e1, e2 \in Ignored(plan, Nodes) :
           /\ plan[e1[1]][e1[2]].prefix > plan.minPrefix
           /\ plan[e2[1]][e2[2]] \in {Cidr(10, 0, 0, 4, 30), Cidr(10, 0, 0, 0, 29)}
    /\ \E id \in DOMAIN Nodes : Nodes[id].explicitStatus /= Undefined

\* C26: updateNodeStatus(tree, n, s, false) on an existing node n sets
\* explicitStatus = s on n and leaves the explicitStatus of every other node as
\* it was; when n has children, every node's effectiveStatus and the result of
\* calculateStatusTotals are the same as before the call.
C26_NoCascadeFrame ==
    (Updated /\ ~last.cascade /\ last.nodeId \in DOMAIN InputNodes) =>
        /\ last.outcome = "returned"
        /\ DOMAIN Nodes = DOMAIN InputNodes
        /\ Nodes[last.nodeId].explicitStatus = last.status
        /\ \A id \in DOMAIN Nodes \ {last.nodeId} :
               Nodes[id].explicitStatus = InputNodes[id].explicitStatus
        /\ Len(InputNodes[last.nodeId].children) > 0 =>
               /\ \A id \in DOMAIN Nodes :
                      Nodes[id].effectiveStatus = InputNodes[id].effectiveStatus
               /\ calculateStatusTotals(heap, tree) = calculateStatusTotals(heap, InputTree)

\* C26 witness: an update without cascade gave a node with children an
\* explicitStatus that is neither the one it had nor its effectiveStatus.
C26_Witness ==
    /\ Updated /\ ~last.cascade /\ last.outcome = "returned"
    /\ last.nodeId \in DOMAIN InputNodes
    /\ Len(InputNodes[last.nodeId].children) > 0
    /\ last.status /= InputNodes[last.nodeId].explicitStatus
    /\ last.status /= Nodes[last.nodeId].effectiveStatus
    /\ Nodes[last.nodeId].effectiveStatus /= "PARTIAL"

\* C27: in every tree built or returned by an update, all descendants of a
\* node whose effectiveStatus is not PARTIAL have that same effectiveStatus,
\* and no leaf is PARTIAL.
C27_UniformBelowNonPartial ==
    pc = "built" =>
        \A id \in DOMAIN Nodes :
            \E node \in {Nodes[id]} :
                /\ node.effectiveStatus /= "PARTIAL" =>
                       \A below \in WithDescendants(Nodes, {id}) :
                           Nodes[below].effectiveStatus = node.effectiveStatus
                /\ Len(node.children) = 0 => node.effectiveStatus /= "PARTIAL"

\* C27 witness: after an update the tree has a PARTIAL node and, elsewhere, a
\* node with children that is not PARTIAL and carries an explicitStatus other
\* than its effectiveStatus.
C27_Witness ==
    /\ Updated /\ last.outcome = "returned"
    /\ \E id \in DOMAIN Nodes : Nodes[id].effectiveStatus = "PARTIAL"
    /\ \E id \in DOMAIN Nodes :
           /\ Len(Nodes[id].children) = 2
           /\ Nodes[id].effectiveStatus /= "PARTIAL"
           /\ Nodes[id].explicitStatus \notin {Undefined, Nodes[id].effectiveStatus}

\* the sum of totalIPs over the leaves among values[i], values[i+1], ... whose
\* effectiveStatus is status
RECURSIVE LeafSum(_, _, _)
LeafSum(values, i, status) ==
    IF i > Len(values) THEN NZero
    ELSE IF Len(values[i].children) = 0 /\ values[i].effectiveStatus = status
         THEN NAdd(values[i].totalIPs, LeafSum(values, i + 1, status))
         ELSE LeafSum(values, i + 1, status)

\* C28: each of the buckets IN_USE, FREE, RESERVED and UNAVAILABLE of
\* calculateStatusTotals is the sum of totalIPs over all leaves of the tree
\* with that effectiveStatus.
C28_BucketsAreLeafSums ==
    pc = "built" =>
        \E t \in {calculateStatusTotals(heap, tree)} :
        \E values \in {ObjectValues(Nodes, tree.rootId)} :
            /\ Len(values) = Cardinality(DOMAIN Nodes)
            /\ \A k \in ExplicitStatus : t[k] = LeafSum(values, 1, k)

\* C28 witness: after an update the totals count a node with children as a
\* whole, in a bucket other than that of the explicitStatus it carries, and
\* another bucket is filled below a PARTIAL node.
C28_Witness ==
    /\ Updated /\ last.outcome = "returned"
    /\ Nodes[tree.rootId].effectiveStatus = "PARTIAL"
    /\ \E id \in DOMAIN Nodes :
           /\ Len(Nodes[id].children) = 2
           /\ Nodes[id].effectiveStatus /= "PARTIAL"
           /\ Nodes[id].explicitStatus \notin {Undefined, Nodes[id].effectiveStatus}
           /\ NLe(Nodes[id].totalIPs,
                  calculateStatusTotals(heap, tree)[Nodes[id].effectiveStatus])
    /\ Cardinality({k \in ExplicitStatus : calculateStatusTotals(heap, tree)[k] /= NZero}) >= 2

\* the nodes on the parentId path from the node id up to the root, id included
RECURSIVE WithAncestors(_, _)
WithAncestors(nodes, id) ==
    IF id \notin DOMAIN nodes THEN {}
    ELSE {id} \cup WithAncestors(nodes, nodes[id].parentId)

\* C29: updateNodeStatus(tree, n, s, true) on an existing node n changes
\* explicitStatus only on n and its descendants and effectiveStatus only on n,
\* its descendants and its ancestors; every other node keeps both.
C29_CascadeFrame ==
    (Updated /\ last.cascade /\ last.nodeId \in DOMAIN InputNodes) =>
        \E below \in {WithDescendants(InputNodes, {last.nodeId})} :
        \E above \in {WithAncestors(InputNodes, last.nodeId)} :
            /\ last.outcome = "returned"
            /\ DOMAIN Nodes = DOMAIN InputNodes
            /\ \A id \in DOMAIN Nodes \ below :
                   Nodes[id].explicitStatus = InputNodes[id].explicitStatus
            /\ \A id \in DOMAIN Nodes \ (below \cup above) :
                   Nodes[id].effectiveStatus = InputNodes[id].effectiveStatus

\* C29 witness: a cascading update on a node with children, a parent and a
\* sibling changed the explicitStatus of a descendant and the effectiveStatus
\* of the root, while the sibling carries an explicitStatus other than the one
\* applied.
C29_Witness ==
    /\ Updated /\ last.cascade /\ last.outcome = "returned"
    /\ last.nodeId \in DOMAIN InputNodes \ {tree.rootId}
    /\ Len(Nodes[last.nodeId].children) = 2
    /\ \E c \in Elements(Nodes[last.nodeId].children) :
           Nodes[c].explicitStatus /= InputNodes[c].explicitStatus
    /\ Nodes[tree.rootId].effectiveStatus /= InputNodes[tree.rootId].effectiveStatus
    /\ \E id \in DOMAIN Nodes \ (WithDescendants(Nodes, {last.nodeId})
                                     \cup WithAncestors(Nodes, last.nodeId)) :
           Nodes[id].explicitStatus \notin {Undefined, last.status}

\* C30: an explicit status is never cleared. A node that has an explicitStatus
\* has one in the tree the next call leaves, hence in every later tree, and a
\* leaf that has one keeps taking its effectiveStatus from it and not from its
\* defaultStatus.
C30_ExplicitNeverCleared ==
    [][pc = "built" =>
          \A id \in DOMAIN Nodes :
              Nodes[id].explicitStatus /= Undefined =>
                  /\ id \in DOMAIN Nodes'
                  /\ Nodes'[id].explicitStatus /= Undefined
                  /\ Len(Nodes'[id].children) = 0 =>
                         Nodes'[id].effectiveStatus = Nodes'[id].explicitStatus]_vars

\* C30 witness: the second update, on another node, returned a tree in which
\* a leaf still carries the explicitStatus it had before, one that is not its
\* defaultStatus, while a node above the leaf was given a different status.
C30_Witness ==
    /\ Updated /\ last.outcome = "returned" /\ updates = 2
    /\ last.nodeId \in DOMAIN InputNodes
    /\ \E id \in DOMAIN Nodes \ {last.nodeId} :
           /\ Len(Nodes[id].children) = 0
           /\ InputNodes[id].explicitStatus /= Undefined
           /\ Nodes[id].explicitStatus = InputNodes[id].explicitStatus
           /\ Nodes[id].explicitStatus \notin {Nodes[id].defaultStatus, last.status}
           /\ Nodes[id].effectiveStatus = Nodes[id].explicitStatus
           /\ last.nodeId \in WithAncestors(Nodes, id)

====
